---- MODULE Spec2Model ----
(***************************************************************************)
(* The federated learning client of plato/clients/base.py: construction    *)
(* (port derivation), the start_client round loop over one websocket       *)
(* session, the chunked payload codec (Client.recv / Client.send) and the  *)
(* heartbeat side process.                                                 *)
(***************************************************************************)
EXTENDS Integers, Sequences, FiniteSets, TLC

(* ------------------------------ bounds --------------------------------- *)
MaxClients == 3      \* total_clients ranges over 1..MaxClients
MaxSilos == 2        \* total_silos ranges over 1..MaxSilos
MaxChunks == 2       \* payload lists and payload_length go up to MaxChunks
MaxRecv == 4         \* frames the peer delivers on the main session
MaxBeats == 1        \* heartbeat frames sent in a round
MaxRounds == 2       \* invocations of Trainer.train that return

ServerPorts == {8000}    \* Config().server.port
IntervalValues == {30}   \* a configured heartbeat_max_interval
RunIds == {101, 102}     \* Config().params['run_id']
ModelNames == {"lenet5"} \* Config().trainer.model_name
DefaultInterval == 60    \* the interval used when none is read

VARIABLES
  cfg,            \* Config(): id, total_clients, total_silos, cross_silo, edge
  pc,             \* position of the main flow (__init__ / start_client)
  edge_server_id, \* self.edge_server_id (Missing while there is no attribute)
  server_port,    \* self.server_port
  data_loaded,    \* self.data_loaded
  ws,             \* main websocket: "none", "open", "closed"
  ws_port,        \* port the main websocket was opened to
  sent,           \* frames sent on the main websocket since the last
                  \* selection was applied (since the connect before that)
  inq,            \* frames the peer put on the main websocket, not yet received
  nrecv,          \* number of frames received on the main websocket
  data,           \* start_client: the decoded selection message
  server_payload, \* Client.recv: the chunks collected so far
  result,         \* what train() returned: <<report, payload>> or <<>>
  sent_i,         \* Client.send: elements of the payload already sent
  calls,          \* collaborator invocations of the current round, in order
  round,          \* the current round: its number, its selection message, the
                  \* payload frames received and what train() returned
  nloads,         \* number of load_data() invocations so far
  hb,             \* heartbeat processes started, in order, with their state
  hb_sent,        \* frames sent by heartbeat processes since the last
                  \* selection was applied: port, process and frame
  err,            \* the exception that ended start_client, "none" if none
  session,        \* main sessions opened and registration frames sent so far
  trainer         \* the Trainer of the client: where Trainer.train is, the
                  \* start method of multiprocessing, the model directory

vars == <<cfg, pc, edge_server_id, server_port, data_loaded, ws, ws_port, sent,
          inq, nrecv, data, server_payload, result, sent_i, calls, round,
          nloads, hb, hb_sent, err, session, trainer>>

(* --------------------------- python values ----------------------------- *)
Unset == [kind |-> "unset"]
Missing == 0   \* in place of a port or an id that is not there; those are positive
NoError == [kind |-> "none", from |-> "none"]
Error(k, at) == [kind |-> k, from |-> at]
Blob(n) == [kind |-> "obj", v |-> n]
PyList(s) == [kind |-> "list", elems |-> s]
Blobs == {Blob(n) : n \in 1..MaxChunks}

IsList(v) == v.kind = "list"
HasKey(d, k) == d.kind = "dict" /\ k \in DOMAIN d

SeqsUpTo(S, n) == UNION {[1..k -> S] : k \in 0..n}

(* pickle.dumps / pickle.loads: a frame is the byte string of a value; a   *)
(* frame that is not a pickle makes loads raise.                           *)
Pickle(v) == [kind |-> "bytes", of |-> v]
Garbage == [kind |-> "bytes", junk |-> TRUE]
CanUnpickle(f) == "of" \in DOMAIN f
Unpickle(f) == f.of

(* ------------------------------ Config --------------------------------- *)
(* an optional attribute of a configuration section: <<>> when the section *)
(* does not have it (hasattr is False), <<v>> when it is set to v          *)
Attribute(S) == {<<>>} \cup {<<v>> : v \in S}

Configs ==
  {c \in [id : 1..MaxClients, total_clients : 1..MaxClients,
          total_silos : 1..MaxSilos, cross_silo : BOOLEAN,
          is_edge_server : BOOLEAN, port : ServerPorts,
          server_hmi : Attribute(IntervalValues),
          clients_hmi : Attribute(IntervalValues)] :
     c.id <= c.total_clients}

ContactsEdge_AnyRole(c) == c.cross_silo

(* hasattr(Config().algorithm, 'cross_silo') and not Config().is_edge_server() *)
ContactsEdge(c) == c.cross_silo /\ ~c.is_edge_server

EdgeServerId_NoMod(c) == c.total_clients + (c.id - 1) + 1

(* lines 37-38: self.edge_server_id *)
EdgeServerId(c) == c.total_clients + ((c.id - 1) % c.total_silos) + 1

(* lines 42 and 44: self.server_port *)
ServerPort(c) ==
  IF ContactsEdge(c) THEN c.port + EdgeServerId(c) ELSE c.port

(* ------------------------------ Trainer -------------------------------- *)
(* f"{model_name}_{client_id}_{run_id}.{ext}": the name of a file in the   *)
(* model directory, as its stem and its extension                          *)
FileName(model_name, client_id, run_id, ext) ==
  [stem |-> <<model_name, client_id, run_id>>, ext |-> ext]

FirstRun == CHOOSE r \in RunIds : \A q \in RunIds : r <= q

(* a Trainer before its first train(): no start method has been set in the *)
(* process, files is what the model directory holds                        *)
NewTrainer(id, run, files) ==
  [pc |-> "idle", client_id |-> id, run_id |-> run,
   model_name |-> CHOOSE m \in ModelNames : TRUE,
   start_method |-> <<>>, files |-> files, child |-> "none", saved |-> {},
   loaded |-> <<>>, log |-> <<>>, n |-> 0, err |-> NoError]

(* ------------------------------- Init ---------------------------------- *)
NoRound == [n |-> 0, sel |-> Unset, rcvd |-> <<>>, ret |-> <<>>]

Idle ==
  /\ edge_server_id = Missing
  /\ server_port = Missing
  /\ data_loaded = FALSE
  /\ ws = "none"
  /\ ws_port = Missing
  /\ sent = <<>>
  /\ inq = <<>>
  /\ nrecv = 0
  /\ data = Unset
  /\ server_payload = Unset
  /\ result = <<>>
  /\ sent_i = 0
  /\ calls = <<>>
  /\ round = NoRound
  /\ nloads = 0
  /\ hb = <<>>
  /\ hb_sent = <<>>
  /\ err = NoError
  /\ session = [conns |-> 0, regs |-> 0]

(* the configurations the round loop is explored under: the loop reads   *)
(* the configuration only for its own id and for the two ports            *)
RunConfigs ==
  {c \in Configs : c.id = 1 /\ c.total_clients = MaxClients
                     /\ c.total_silos = MaxSilos /\ ~c.is_edge_server
                     /\ c.server_hmi = <<>> /\ c.clients_hmi = <<>>}

Init ==
  /\ cfg \in RunConfigs
  /\ pc = "new"
  /\ Idle
  /\ trainer = NewTrainer(cfg.id, FirstRun, {})

InitConfig ==
  /\ cfg \in Configs
  /\ pc = "new"
  /\ Idle
  /\ trainer = NewTrainer(cfg.id, FirstRun, {})

(* Client.__init__ *)
ClientInit ==
  /\ pc = "new"
  /\ pc' = "start"
  /\ data_loaded' = FALSE
  /\ edge_server_id' = IF ContactsEdge(cfg) THEN EdgeServerId(cfg) ELSE Missing
  /\ server_port' = ServerPort(cfg)
  /\ UNCHANGED <<cfg, ws, ws_port, sent, inq, nrecv, data, server_payload,
                 result, sent_i, calls, round, nloads, hb, hb_sent, err, session,
                 trainer>>

(* start_client up to the websocket being connected *)
Connect ==
  /\ pc = "start"
  /\ pc' = "register"
  /\ ws' = "open"
  /\ ws_port' = server_port
  /\ session' = [session EXCEPT !.conns = @ + 1]
  /\ UNCHANGED <<cfg, edge_server_id, server_port, data_loaded, sent, inq,
                 nrecv, data, server_payload, result, sent_i, calls, round, nloads,
                 hb, hb_sent, err, trainer>>

(* websocket.send(pickle.dumps({'id': self.client_id})) *)
Register ==
  /\ pc = "register"
  /\ pc' = "await_sel"
  /\ sent' = Append(sent, Pickle([kind |-> "dict", id |-> cfg.id]))
  /\ session' = [session EXCEPT !.regs = @ + 1]
  /\ UNCHANGED <<cfg, edge_server_id, server_port, data_loaded, ws, ws_port,
                 inq, nrecv, data, server_payload, result, sent_i, calls,
                 round, nloads, hb, hb_sent, err, trainer>>

(* ------------------------- the payload codec --------------------------- *)
SendFrames_Whole(payload) == <<Pickle(payload)>>

(* Client.send: the frames it emits for a payload, in order *)
SendFrames(payload) ==
  IF IsList(payload)
    THEN [i \in 1..Len(payload.elems) |-> Pickle(payload.elems[i])]
    ELSE <<Pickle(payload)>>

RecvCount_Short(d) ==
  IF HasKey(d, "payload_length") THEN d.payload_length - 1 ELSE 1

RecvCount_Extra(d) ==
  IF HasKey(d, "payload_length") THEN d.payload_length + 1 ELSE 1

(* Client.recv: the number of websocket.recv() calls it makes for data *)
RecvCount(d) ==
  IF HasKey(d, "payload_length") THEN d.payload_length ELSE 1

(* Client.recv: server_payload before the first receive *)
RecvStart(d) ==
  IF HasKey(d, "payload_length") THEN PyList(<<>>) ELSE Unset

RecvAppend_Prepend(d, acc, v) ==
  IF HasKey(d, "payload_length") THEN PyList(<<v>> \o acc.elems) ELSE v

(* Client.recv: server_payload after one more frame was decoded to v *)
RecvAppend(d, acc, v) ==
  IF HasKey(d, "payload_length") THEN PyList(Append(acc.elems, v)) ELSE v

(* ---------------------- collaborators (abstract) ----------------------- *)
(* load_data(): the value of self.data_loaded once it has run *)
LoadData == TRUE

Reports == {[kind |-> "report", num_samples |-> 50, accuracy |-> 91]}

(* what train() may return as payload: a list of chunks or a single object *)
TrainPayloads ==
  {PyList([i \in 1..n |-> Blob(i)]) : n \in 0..MaxChunks} \cup {Blob(1)}

(* ------------------------------ the peer ------------------------------- *)
ForeignId == cfg.id + 1

(* selection messages: with and without the 'payload' and the            *)
(* 'payload_length' key                                                    *)
SelMsgsFor(i) ==
  {[kind |-> "dict", id |-> i],
   [kind |-> "dict", id |-> i, payload |-> TRUE],
   [kind |-> "dict", id |-> i, payload_length |-> MaxChunks]}
  \cup {[kind |-> "dict", id |-> i, payload |-> TRUE, payload_length |-> n] :
          n \in 0..MaxChunks}

PayloadFrames == {Pickle(b) : b \in Blobs} \cup {Garbage}

(* what the peer may send while the client waits to be selected, and while *)
(* the client is receiving a payload                                       *)
ServerFrames(at) ==
  IF at = "recv"
    THEN PayloadFrames
    ELSE {Pickle(m) : m \in SelMsgsFor(cfg.id)}
         \cup {Pickle([kind |-> "dict", id |-> ForeignId, payload |-> TRUE])}
         \cup {Pickle(Blob(1)), Garbage}

(* the peer puts one more frame on the main session; the session is in     *)
(* order, so the frame is modelled when the client is ready to receive it  *)
ServerSend(f) ==
  /\ pc \in {"await_sel", "recv"}
  /\ inq = <<>>
  /\ nrecv < MaxRecv
  /\ f \in ServerFrames(pc)
  /\ inq' = <<f>>
  /\ UNCHANGED <<cfg, pc, edge_server_id, server_port, data_loaded, ws,
                 ws_port, sent, nrecv, data, server_payload, result, sent_i,
                 calls, round, nloads, hb, hb_sent, err, session, trainer>>

(* --------------------------- start_client ------------------------------ *)
NewHeartbeat == [pc |-> "connect", failed |-> FALSE, sleep |-> 0]

(* lines 119-123: the heartbeat process is started, train() is invoked *)
StartTraining(cs) ==
  /\ hb' = Append(hb, NewHeartbeat)
  /\ calls' = cs \o <<[op |-> "heartbeat_start"], [op |-> "train"]>>

Addressed_Any(d, id) == TRUE

(* line 106: data['id'] == self.client_id *)
Addressed(d, id) == d.id = id

LoadsData_Always(loaded) == TRUE

(* line 111: if not self.data_loaded *)
LoadsData(loaded) == ~loaded

ReceivesPayload_Length(d) == HasKey(d, "payload") \/ HasKey(d, "payload_length")

(* line 114: if 'payload' in data *)
ReceivesPayload(d) == HasKey(d, "payload")

(* lines 103-123: one frame received while waiting to be selected *)
RecvSelection ==
  /\ pc = "await_sel"
  /\ inq # <<>>
  /\ LET f == Head(inq)
         bad == ~CanUnpickle(f)
         d == Unpickle(f)
         nosel == ~bad /\ ~HasKey(d, "id")
         mine == ~bad /\ ~nosel /\ Addressed(d, cfg.id)
         calls1 == IF LoadsData(data_loaded)
                     THEN <<[op |-> "load_data"]>> ELSE <<>>
         wants == mine /\ ReceivesPayload(d)
         empty == wants /\ RecvCount(d) = 0
         calls2 == IF empty
                     THEN Append(calls1, [op |-> "load_payload",
                                          arg |-> RecvStart(d)])
                     ELSE calls1
         trains == mine /\ (~wants \/ empty)
     IN
     /\ inq' = Tail(inq)
     /\ nrecv' = nrecv + 1
     /\ pc' = CASE bad \/ nosel -> "raised"
                [] ~mine -> "await_sel"
                [] trains -> "training"
                [] OTHER -> "recv"
     /\ err' = CASE bad -> Error("UnpicklingError", "decode")
                 [] nosel -> Error("TypeError", "decode")
                 [] OTHER -> err
     /\ ws' = IF bad \/ nosel THEN "closed" ELSE ws
     /\ data' = IF bad THEN data ELSE d
     /\ data_loaded' = IF mine /\ LoadsData(data_loaded)
                         THEN LoadData ELSE data_loaded
     /\ server_payload' = IF wants THEN RecvStart(d) ELSE server_payload
     /\ round' = IF mine
                   THEN [n |-> round.n + 1, sel |-> d, rcvd |-> <<>>,
                         ret |-> <<>>]
                   ELSE round
     /\ nloads' = IF mine /\ LoadsData(data_loaded)
                    THEN nloads + 1 ELSE nloads
     /\ sent' = IF mine THEN <<>> ELSE sent
     /\ hb_sent' = IF mine THEN <<>> ELSE hb_sent
     /\ IF trains
          THEN StartTraining(calls2)
          ELSE /\ calls' = IF mine THEN calls1 ELSE calls
               /\ hb' = hb
  /\ UNCHANGED <<cfg, edge_server_id, server_port, ws_port, result, sent_i,
                 session, trainer>>

RecvChunk_Partial ==
  /\ pc = "recv"
  /\ inq # <<>>
  /\ LET f == Head(inq)
         bad == ~CanUnpickle(f)
         acc == IF bad THEN server_payload
                       ELSE RecvAppend(data, server_payload, Unpickle(f))
         got == Append(round.rcvd, f)
         done == bad \/ Len(got) = RecvCount(data)
     IN
     /\ inq' = Tail(inq)
     /\ nrecv' = nrecv + 1
     /\ pc' = IF done THEN "training" ELSE "recv"
     /\ server_payload' = acc
     /\ round' = [round EXCEPT !.rcvd = got]
     /\ IF done
          THEN StartTraining(Append(calls, [op |-> "load_payload",
                                            arg |-> acc]))
          ELSE UNCHANGED <<calls, hb>>
  /\ UNCHANGED <<cfg, edge_server_id, server_port, data_loaded, ws, ws_port,
                 sent, data, result, sent_i, nloads, hb_sent, err, session,
                 trainer>>

(* lines 160-163 / 166-167 and, once Client.recv returns, lines 117-123 *)
RecvChunk ==
  /\ pc = "recv"
  /\ inq # <<>>
  /\ LET f == Head(inq)
         bad == ~CanUnpickle(f)
         acc == RecvAppend(data, server_payload, Unpickle(f))
         got == Append(round.rcvd, f)
         done == ~bad /\ Len(got) = RecvCount(data)
     IN
     /\ inq' = Tail(inq)
     /\ nrecv' = nrecv + 1
     /\ pc' = CASE bad -> "raised" [] done -> "training" [] OTHER -> "recv"
     /\ err' = IF bad THEN Error("UnpicklingError", "decode") ELSE err
     /\ ws' = IF bad THEN "closed" ELSE ws
     /\ server_payload' = IF bad THEN server_payload ELSE acc
     /\ round' = [round EXCEPT !.rcvd = got]
     /\ IF done
          THEN StartTraining(Append(calls, [op |-> "load_payload",
                                            arg |-> acc]))
          ELSE UNCHANGED <<calls, hb>>
  /\ UNCHANGED <<cfg, edge_server_id, server_port, data_loaded, ws_port, sent,
                 data, result, sent_i, nloads, hb_sent, session, trainer>>

Terminate_Noop(p) == p

Terminate_Graceful(p) ==
  IF p.pc = "sleep" THEN [pc |-> "terminated", failed |-> FALSE, sleep |-> 0]
                    ELSE p

(* Process.terminate(): the process is not alive afterwards *)
Terminate(p) == [pc |-> "terminated", failed |-> FALSE, sleep |-> 0]

HeartbeatProc_First == CHOOSE i \in 1..Len(hb) : \A j \in 1..Len(hb) : i <= j

(* lines 119-124: heartbeat_proc names the process started in this round *)
HeartbeatProc == Len(hb)

(* lines 123-124: train() returns, the heartbeat process is terminated *)
TrainReturn(report, payload) ==
  /\ pc = "training"
  /\ pc' = "send_report"
  /\ result' = <<report, payload>>
  /\ hb' = [hb EXCEPT ![HeartbeatProc] = Terminate(@)]
  /\ round' = [round EXCEPT !.ret = <<report, payload>>]
  /\ UNCHANGED <<cfg, edge_server_id, server_port, data_loaded, ws, ws_port,
                 sent, inq, nrecv, data, server_payload, sent_i, calls,
                 nloads, hb_sent, err, session, trainer>>

Caught_All(kind) == TRUE

(* which exceptions the except clause of start_client catches (line 145) *)
Caught(kind) == kind = "OSError"

(* an exception of this kind leaves the try block of start_client *)
Leave(kind, at) ==
  /\ pc' = IF Caught(kind) THEN "returned" ELSE "raised"
  /\ err' = Error(kind, at)
  /\ ws' = IF ws = "open" THEN "closed" ELSE ws

(* line 123: train() raises *)
TrainRaise(kind) ==
  /\ pc = "training"
  /\ Leave(kind, "train")
  /\ UNCHANGED <<cfg, edge_server_id, server_port, data_loaded, ws_port, sent,
                 inq, nrecv, data, server_payload, result, sent_i, calls,
                 round, nloads, hb, hb_sent, session, trainer>>

ClientReport_NoFlag(report) ==
  [kind |-> "dict", id |-> cfg.id, report |-> report]

(* lines 135-139: client_report *)
ClientReport(report) ==
  [kind |-> "dict", id |-> cfg.id, report |-> report, payload |-> TRUE]

NextRound_Reconnect == "start"

(* line 100: 'while True' is inside 'async with websockets.connect' and    *)
(* after the registration: the next iteration starts at the recv of 103    *)
NextRound == "await_sel"

(* lines 135-143: the report frame is sent, Client.send is entered *)
SendReport ==
  /\ pc = "send_report"
  /\ sent' = Append(sent, Pickle(ClientReport(result[1])))
  /\ sent_i' = 0
  /\ pc' = IF Len(SendFrames(result[2])) = 0 THEN NextRound
           ELSE "send_payload"
  /\ UNCHANGED <<cfg, edge_server_id, server_port, data_loaded, ws, ws_port,
                 inq, nrecv, data, server_payload, result, calls, round, nloads, hb,
                 hb_sent, err, session, trainer>>

(* lines 181-183 / 186-187: one frame of the payload is sent *)
SendPayloadFrame ==
  /\ pc = "send_payload"
  /\ sent' = Append(sent, SendFrames(result[2])[sent_i + 1])
  /\ sent_i' = sent_i + 1
  /\ pc' = IF sent_i + 1 = Len(SendFrames(result[2])) THEN NextRound
           ELSE "send_payload"
  /\ UNCHANGED <<cfg, edge_server_id, server_port, data_loaded, ws, ws_port,
                 inq, nrecv, data, server_payload, result, calls, round, nloads, hb,
                 hb_sent, err, session, trainer>>

(* a connect, send or receive on the main session fails *)
TransportErrors == {"OSError", "ConnectionClosed"}

TransportError(kind) ==
  /\ pc \in {"start", "register", "await_sel", "recv", "send_report",
             "send_payload"}
  /\ inq = <<>>
  /\ Leave(kind, "session")
  /\ UNCHANGED <<cfg, edge_server_id, server_port, data_loaded, ws_port, sent,
                 inq, nrecv, data, server_payload, result, sent_i, calls,
                 round, nloads, hb, hb_sent, session, trainer>>

(* --------------------------- the heartbeat ----------------------------- *)
Alive(p) == p.pc \notin {"exited", "crashed", "terminated"}

HbStep(i, to) ==
  /\ i \in 1..Len(hb)
  /\ hb' = [hb EXCEPT ![i].pc = to]

(* line 54: the heartbeat connects to the server *)
HbConnect(i) ==
  /\ i \in 1..Len(hb) /\ hb[i].pc = "connect"
  /\ HbStep(i, "send")
  /\ UNCHANGED <<cfg, pc, edge_server_id, server_port, data_loaded, ws,
                 ws_port, sent, inq, nrecv, data, server_payload, result,
                 sent_i, calls, round, nloads, hb_sent, err, session,
                 trainer>>

AfterConnectFail_Retry(p) == [p EXCEPT !.pc = "connect", !.failed = TRUE]

(* lines 67-71: except OSError logs, and the coroutine ends: the except   *)
(* clause is outside the while loop                                        *)
AfterConnectFail(p) == [p EXCEPT !.pc = "exited", !.failed = TRUE]

(* line 54: the connection fails with an OSError *)
HbConnectFail(i) ==
  /\ i \in 1..Len(hb) /\ hb[i].pc = "connect"
  /\ hb' = [hb EXCEPT ![i] = AfterConnectFail(@)]
  /\ UNCHANGED <<cfg, pc, edge_server_id, server_port, data_loaded, ws,
                 ws_port, sent, inq, nrecv, data, server_payload, result,
                 sent_i, calls, round, nloads, hb_sent, err, session,
                 trainer>>

HeartbeatPort(c) == c.port

(* line 58: websocket.send(pickle.dumps({'id': client_id})) *)
HbSend(i) ==
  /\ i \in 1..Len(hb) /\ hb[i].pc = "send"
  /\ Len(hb_sent) < MaxBeats
  /\ HbStep(i, "close")
  /\ hb_sent' = Append(hb_sent, [port |-> HeartbeatPort(cfg), proc |-> i,
                                 frame |-> Pickle([kind |-> "dict",
                                                   id |-> cfg.id])])
  /\ UNCHANGED <<cfg, pc, edge_server_id, server_port, data_loaded, ws,
                 ws_port, sent, inq, nrecv, data, server_payload, result,
                 sent_i, calls, round, nloads, err, session, trainer>>

(* line 58: the send fails on a connection the server closed; the error  *)
(* is not an OSError and ends the heartbeat process                        *)
HbSendFail(i) ==
  /\ i \in 1..Len(hb) /\ hb[i].pc = "send"
  /\ hb' = [hb EXCEPT ![i].pc = "crashed", ![i].failed = TRUE]
  /\ UNCHANGED <<cfg, pc, edge_server_id, server_port, data_loaded, ws,
                 ws_port, sent, inq, nrecv, data, server_payload, result,
                 sent_i, calls, round, nloads, hb_sent, err, session,
                 trainer>>

(* lines 62-64: the condition tests the server section *)
ReadsInterval(c) == c.server_hmi # <<>>

(* lines 62-64: the value is read from the clients section; reading an     *)
(* attribute the section does not have raises AttributeError               *)
IntervalFails(c) == ReadsInterval(c) /\ c.clients_hmi = <<>>

MaxInterval(c) ==
  IF ReadsInterval(c) THEN c.clients_hmi[1] ELSE DefaultInterval

(* line 65: heartbeat_max_interval * random.random() is in [0, m); the    *)
(* shortest and the longest sleep in whole seconds                        *)
SleepTimes(m) == {0, m - 1}

(* lines 60-65: the connection is closed, the interval is read and the     *)
(* heartbeat goes to sleep; an AttributeError is not an OSError and ends   *)
(* the heartbeat process, with no connection of it having failed           *)
HbClose(i) ==
  /\ i \in 1..Len(hb) /\ hb[i].pc = "close"
  /\ IF IntervalFails(cfg)
       THEN hb' = [hb EXCEPT ![i].pc = "crashed"]
       ELSE \E t \in SleepTimes(MaxInterval(cfg)) :
              hb' = [hb EXCEPT ![i].pc = "sleep", ![i].sleep = t]
  /\ UNCHANGED <<cfg, pc, edge_server_id, server_port, data_loaded, ws,
                 ws_port, sent, inq, nrecv, data, server_payload, result,
                 sent_i, calls, round, nloads, hb_sent, err, session,
                 trainer>>

(* line 65: asyncio.sleep returns, the loop starts over *)
HbWake(i) ==
  /\ i \in 1..Len(hb) /\ hb[i].pc = "sleep"
  /\ hb' = [hb EXCEPT ![i].pc = "connect", ![i].sleep = 0]
  /\ UNCHANGED <<cfg, pc, edge_server_id, server_port, data_loaded, ws,
                 ws_port, sent, inq, nrecv, data, server_payload, result,
                 sent_i, calls, round, nloads, hb_sent, err, session,
                 trainer>>

Heartbeat(i) ==
  \/ HbConnect(i)
  \/ HbConnectFail(i)
  \/ HbSend(i)
  \/ HbSendFail(i)
  \/ HbClose(i)
  \/ HbWake(i)

TrainErrors == {"OSError", "RuntimeError"}

Next ==
  \/ ClientInit
  \/ Connect
  \/ Register
  \/ \E f \in ServerFrames(pc) : ServerSend(f)
  \/ RecvSelection
  \/ RecvChunk
  \/ \E rep \in Reports, p \in TrainPayloads : TrainReturn(rep, p)
  \/ \E k \in TrainErrors : TrainRaise(k)
  \/ SendReport
  \/ SendPayloadFrame
  \/ \E k \in TransportErrors : TransportError(k)
  \/ \E i \in 1..Len(hb) : Heartbeat(i)

Spec == Init /\ [][Next]_vars

(* ------------- the codec over one reliable in-order session ------------ *)
(* Client.send writes a payload to a session and Client.recv reads from    *)
(* the same session: what is sent is delivered, in order (inq).            *)
LoopPayloads ==
  {PyList(q) : q \in SeqsUpTo(Blobs, MaxChunks)} \cup Blobs

LoopData ==
  {[kind |-> "dict", id |-> cfg.id, payload |-> TRUE]}
  \cup {[kind |-> "dict", id |-> cfg.id, payload |-> TRUE,
         payload_length |-> n] : n \in 0..MaxChunks}

InitLoop ==
  /\ cfg \in RunConfigs
  /\ pc = "loop_send"
  /\ Idle
  /\ trainer = NewTrainer(cfg.id, FirstRun, {})

(* the payload to send and the message that announces it *)
LoopStart ==
  /\ pc = "loop_send" /\ result = <<>>
  /\ \E rep \in Reports, p \in LoopPayloads : result' = <<rep, p>>
  /\ data' \in LoopData
  /\ UNCHANGED <<cfg, pc, edge_server_id, server_port, data_loaded, ws,
                 ws_port, sent, inq, nrecv, server_payload, sent_i, calls,
                 round, nloads, hb, hb_sent, err, session, trainer>>

(* Client.send, lines 181-183 / 186-187: one frame is sent *)
LoopSendFrame ==
  /\ pc = "loop_send" /\ result # <<>>
  /\ sent_i < Len(SendFrames(result[2]))
  /\ sent' = Append(sent, SendFrames(result[2])[sent_i + 1])
  /\ inq' = Append(inq, SendFrames(result[2])[sent_i + 1])
  /\ sent_i' = sent_i + 1
  /\ UNCHANGED <<cfg, pc, edge_server_id, server_port, data_loaded, ws,
                 ws_port, nrecv, data, server_payload, result, calls, round, nloads,
                 hb, hb_sent, err, session, trainer>>

(* Client.send returns, Client.recv is entered (lines 156-158) *)
LoopSendDone ==
  /\ pc = "loop_send" /\ result # <<>>
  /\ sent_i = Len(SendFrames(result[2]))
  /\ pc' = "loop_recv"
  /\ server_payload' = RecvStart(data)
  /\ UNCHANGED <<cfg, edge_server_id, server_port, data_loaded, ws, ws_port,
                 sent, inq, nrecv, data, result, sent_i, calls, round, nloads, hb,
                 hb_sent, err, session, trainer>>

(* Client.recv, lines 160-163 / 166-167: one frame is received *)
LoopRecvFrame ==
  /\ pc = "loop_recv"
  /\ nrecv < RecvCount(data)
  /\ inq # <<>>
  /\ inq' = Tail(inq)
  /\ nrecv' = nrecv + 1
  /\ server_payload' = RecvAppend(data, server_payload, Unpickle(Head(inq)))
  /\ UNCHANGED <<cfg, pc, edge_server_id, server_port, data_loaded, ws,
                 ws_port, sent, data, result, sent_i, calls, round, nloads, hb,
                 hb_sent, err, session, trainer>>

(* Client.recv returns server_payload (line 174) *)
LoopRecvDone ==
  /\ pc = "loop_recv"
  /\ nrecv = RecvCount(data)
  /\ pc' = "loop_done"
  /\ UNCHANGED <<cfg, edge_server_id, server_port, data_loaded, ws, ws_port,
                 sent, inq, nrecv, data, server_payload, result, sent_i,
                 calls, round, nloads, hb, hb_sent, err, session, trainer>>

NextLoop ==
  \/ LoopStart
  \/ LoopSendFrame
  \/ LoopSendDone
  \/ LoopRecvFrame
  \/ LoopRecvDone

SpecLoop == InitLoop /\ [][NextLoop]_vars

(* construction and connection, over every configuration *)
NextConfig ==
  \/ ClientInit
  \/ Connect
  \/ Register
  \/ \E k \in TransportErrors : TransportError(k)

SpecConfig == InitConfig /\ [][NextConfig]_vars

(* ---- the round loop on a session that does not fail, with a train()  ---- *)
(* ---- that returns and a peer that sends the payload it announces     ---- *)
(* the payload frames a selection message announces *)
Declared(d) == IF HasKey(d, "payload_length") THEN d.payload_length ELSE 1

(* the peer sends the next announced payload frame *)
ServerDeliver(f) ==
  /\ pc = "recv"
  /\ inq = <<>>
  /\ Len(round.rcvd) < Declared(round.sel)
  /\ f \in {Pickle(b) : b \in Blobs}
  /\ inq' = <<f>>
  /\ UNCHANGED <<cfg, pc, edge_server_id, server_port, data_loaded, ws,
                 ws_port, sent, nrecv, data, server_payload, result, sent_i,
                 calls, round, nloads, hb, hb_sent, err, session, trainer>>

ServerSelect(f) == pc = "await_sel" /\ ServerSend(f)

NextLive ==
  \/ ClientInit
  \/ Connect
  \/ Register
  \/ \E f \in ServerFrames("await_sel") : ServerSelect(f)
  \/ \E f \in PayloadFrames : ServerDeliver(f)
  \/ RecvSelection
  \/ RecvChunk
  \/ \E rep \in Reports, p \in TrainPayloads : TrainReturn(rep, p)
  \/ SendReport
  \/ SendPayloadFrame
  \/ \E i \in 1..Len(hb) : Heartbeat(i)

(* the event loop runs every coroutine that is ready: a frame that has     *)
(* arrived is received, a send that is due is made; train() returns and    *)
(* the peer sends what it announced. Nothing is assumed of the heartbeat   *)
(* processes nor of when the peer selects the client.                      *)
FairLive ==
  /\ WF_vars(RecvSelection)
  /\ WF_vars(RecvChunk)
  /\ WF_vars(\E f \in PayloadFrames : ServerDeliver(f))
  /\ WF_vars(\E rep \in Reports, p \in TrainPayloads : TrainReturn(rep, p))
  /\ WF_vars(SendReport)
  /\ WF_vars(SendPayloadFrame)

SpecLive == Init /\ [][NextLive]_vars /\ FairLive

(* one heartbeat process on its own, over every configuration *)
InitBeat ==
  /\ cfg \in Configs
  /\ pc = "heartbeat"
  /\ Idle
  /\ trainer = NewTrainer(cfg.id, FirstRun, {})

(* lines 73-76: heartbeat_process runs Client.heartbeat(client_id) *)
HeartbeatProcess ==
  /\ pc = "heartbeat" /\ hb = <<>>
  /\ hb' = <<NewHeartbeat>>
  /\ UNCHANGED <<cfg, pc, edge_server_id, server_port, data_loaded, ws,
                 ws_port, sent, inq, nrecv, data, server_payload, result,
                 sent_i, calls, round, nloads, hb_sent, err, session,
                 trainer>>

NextBeat ==
  \/ HeartbeatProcess
  \/ \E i \in 1..Len(hb) : Heartbeat(i)

SpecBeat == InitBeat /\ [][NextBeat]_vars

(* ---------------------------- Trainer.train ---------------------------- *)
ClientVars == <<cfg, pc, edge_server_id, server_port, data_loaded, ws,
                ws_port, sent, inq, nrecv, data, server_payload, result,
                sent_i, calls, round, nloads, hb, hb_sent, err, session>>

(* line 185: the file train_process saves the model to *)
SavedName(t) == FileName(t.model_name, t.client_id, t.run_id, "pth")

(* line 215: the file train loads the model from *)
LoadedName(t) == FileName(t.model_name, t.client_id, t.run_id, "ckpt")

(* files a model directory may hold before the first train() *)
StaleFiles(id, run) ==
  {FileName(m, id, run, e) : m \in ModelNames, e \in {"pth", "ckpt"}}

(* the trainer reads the configuration for the client id only *)
TrainConfigs ==
  {[c EXCEPT !.id = i] : c \in {d \in RunConfigs : ~d.cross_silo},
                         i \in 1..MaxClients}

InitTrain ==
  /\ cfg \in TrainConfigs
  /\ pc = "trainer"
  /\ Idle
  /\ \E r \in RunIds :
       \E F \in SUBSET StaleFiles(cfg.id, r) :
         trainer = NewTrainer(cfg.id, r, F)

(* line 197: train() is entered, self.start_training() *)
StartTrain ==
  /\ trainer.pc = "idle"
  /\ trainer.n < MaxRounds
  /\ trainer' = [trainer EXCEPT !.pc = "set_start_method",
                                 !.child = "none", !.saved = {},
                                 !.loaded = <<>>,
                                 !.log = <<"start_training">>]
  /\ UNCHANGED ClientVars

(* line 198: mp.set_start_method('spawn') raises RuntimeError when the    *)
(* start method of the process has been set before                        *)
SetStartMethod ==
  /\ trainer.pc = "set_start_method"
  /\ trainer' =
       IF trainer.start_method # <<>>
         THEN [trainer EXCEPT !.pc = "raised",
                 !.err = Error("RuntimeError", "set_start_method")]
         ELSE [trainer EXCEPT !.pc = "start_process",
                 !.start_method = <<"spawn">>]
  /\ UNCHANGED ClientVars

(* lines 200-211: the training process is created and started *)
ProcStart ==
  /\ trainer.pc = "start_process"
  /\ trainer' = [trainer EXCEPT !.pc = "join", !.child = "running",
                                 !.log = Append(@, "process_start")]
  /\ UNCHANGED ClientVars

(* lines 81-186: train_process trains and saves the model, then exits *)
TrainProcess ==
  /\ trainer.child = "running"
  /\ trainer' = [trainer EXCEPT !.child = "exited",
                                 !.files = @ \cup {SavedName(trainer)},
                                 !.saved = @ \cup {SavedName(trainer)}]
  /\ UNCHANGED ClientVars

(* lines 81-180: the training raises in the child, which exits without    *)
(* saving                                                                  *)
TrainProcessFails ==
  /\ trainer.child = "running"
  /\ trainer' = [trainer EXCEPT !.child = "exited"]
  /\ UNCHANGED ClientVars

(* line 212: proc.join() returns when the child has exited *)
ProcJoin ==
  /\ trainer.pc = "join"
  /\ trainer.child = "exited"
  /\ trainer' = [trainer EXCEPT !.pc = "load_model",
                                 !.log = Append(@, "process_join")]
  /\ UNCHANGED ClientVars

(* lines 214-216 and load_model, lines 61-78: load_weights raises when    *)
(* the model directory has no such file                                   *)
LoadModel ==
  /\ trainer.pc = "load_model"
  /\ trainer' =
       IF LoadedName(trainer) \in trainer.files
         THEN [trainer EXCEPT !.pc = "pause_training",
                 !.loaded = <<LoadedName(trainer)>>,
                 !.log = Append(@, "load_model")]
         ELSE [trainer EXCEPT !.pc = "raised",
                 !.err = Error("NotFoundError", "load_model")]
  /\ UNCHANGED ClientVars

(* line 218: self.pause_training(), train() returns *)
PauseTraining ==
  /\ trainer.pc = "pause_training"
  /\ trainer' = [trainer EXCEPT !.pc = "idle", !.n = @ + 1,
                                 !.log = Append(@, "pause_training")]
  /\ UNCHANGED ClientVars

NextTrain ==
  \/ StartTrain
  \/ SetStartMethod
  \/ ProcStart
  \/ TrainProcess
  \/ TrainProcessFails
  \/ ProcJoin
  \/ LoadModel
  \/ PauseTraining

SpecTrain == InitTrain /\ [][NextTrain]_vars

(* ======================= properties of the client ====================== *)

(* the frame at the head of the main session is a selection message for   *)
(* another client, and the client is waiting to be selected               *)
ForeignHead ==
  /\ pc = "await_sel"
  /\ inq # <<>>
  /\ CanUnpickle(Head(inq))
  /\ HasKey(Unpickle(Head(inq)), "id")
  /\ Unpickle(Head(inq)).id # cfg.id

C2_HeartbeatTornDown ==
  pc \in {"returned", "raised"} => \A i \in 1..Len(hb) : ~Alive(hb[i])

(* the calls of the current round that are train() and load_payload()      *)
TrainAt == {i \in 1..Len(calls) : calls[i].op = "train"}
LoadPayloadAt == {i \in 1..Len(calls) : calls[i].op = "load_payload"}

(* load_payload ran exactly once in the current round, before train(),     *)
(* with the decoded frames of the round in receipt order, n of them        *)
LoadedInOrder(n) ==
  /\ Cardinality(LoadPayloadAt) = 1
  /\ Len(round.rcvd) = n
  /\ \A i \in LoadPayloadAt :
       /\ calls[i].arg.kind = "list"
       /\ Len(calls[i].arg.elems) = n
       /\ \A k \in 1..n : Pickle(calls[i].arg.elems[k]) = round.rcvd[k]
       /\ \A j \in TrainAt : i < j

(* C3, as claimed: a selection {id, payload_length: N} makes the client    *)
(* invoke load_payload once, before train(), with the N frames in order.   *)
C3_LengthAloneLoads ==
  (HasKey(round.sel, "payload_length") /\ TrainAt # {}) =>
    LoadedInOrder(round.sel.payload_length)

(* C3, amended: a selection {id, payload, payload_length: N} makes the     *)
(* client invoke load_payload exactly once, before train(), with the N     *)
(* decoded frames in receipt order.                                        *)
C3_PayloadLoadedInOrder ==
  (/\ HasKey(round.sel, "payload")
   /\ HasKey(round.sel, "payload_length")
   /\ TrainAt # {}) =>
    LoadedInOrder(round.sel.payload_length)

(* a round with two different payload frames has reached train() *)
C3_Witness ==
  /\ HasKey(round.sel, "payload")
  /\ HasKey(round.sel, "payload_length")
  /\ round.sel.payload_length = 2
  /\ TrainAt # {}
  /\ Len(round.rcvd) = 2
  /\ round.rcvd[1] # round.rcvd[2]

(* C4, as claimed: the edge identity of a cross-silo non-edge client lies  *)
(* in 1..total_silos.                                                      *)
C4_EdgeIdWithinSilos ==
  (pc # "new" /\ cfg.cross_silo /\ ~cfg.is_edge_server) =>
    edge_server_id \in 1..cfg.total_silos

(* C4, amended: the edge identity of a cross-silo non-edge client lies in  *)
(* total_clients + 1 .. total_clients + total_silos.                       *)
C4_EdgeIdAboveClients ==
  (pc # "new" /\ cfg.cross_silo /\ ~cfg.is_edge_server) =>
    edge_server_id \in (cfg.total_clients + 1)..(cfg.total_clients
                                                   + cfg.total_silos)

(* a client whose id is above the number of silos has been constructed *)
C4_Witness ==
  /\ pc # "new" /\ cfg.cross_silo /\ ~cfg.is_edge_server
  /\ cfg.id > cfg.total_silos
  /\ edge_server_id = cfg.total_clients + 1

(* C5: the port of the main session is base_port + total_clients +         *)
(* (client_id - 1) % total_silos + 1 for a cross-silo client that is not   *)
(* an edge server, and base_port otherwise.                                *)
C5_PortConnected ==
  ws # "none" =>
    ws_port = IF cfg.cross_silo /\ ~cfg.is_edge_server
                THEN cfg.port + (cfg.total_clients
                                 + ((cfg.id - 1) % cfg.total_silos) + 1)
                ELSE cfg.port

(* an edge server under cross-silo has connected to the base port *)
C5_Witness ==
  /\ ws = "open"
  /\ cfg.cross_silo /\ cfg.is_edge_server
  /\ ws_port = cfg.port

LoadDataAt == {i \in 1..Len(calls) : calls[i].op = "load_data"}

C7_TransportErrorRaised ==
  /\ [](err.from = "session" => (pc = "raised" /\ ws # "open"))
  /\ [][err.from = "session" =>
          UNCHANGED <<pc, err, ws, ws_port, sent, nrecv, calls, round, hb,
                      hb_sent>>]_vars

(* C7, amended: after a transport error on the main session the client     *)
(* opens no session, sends no frame and starts no round; an OSError is     *)
(* logged and start_client returns normally, any other error is raised to  *)
(* the caller.                                                             *)
C7_TransportErrorStops ==
  /\ [](err.from = "session" =>
          /\ pc = IF err.kind = "OSError" THEN "returned" ELSE "raised"
          /\ ws # "open"
          /\ \A i \in 1..Len(hb) : ~Alive(hb[i]))
  /\ [][err.from = "session" =>
          UNCHANGED <<pc, err, ws, ws_port, sent, nrecv, calls, round, nloads,
                      hb, hb_sent, data_loaded>>]_vars

(* an OSError hit the main session in the middle of a round *)
C7_Witness ==
  /\ err = Error("OSError", "session")
  /\ pc = "returned"
  /\ ws = "closed"
  /\ round.n >= 1

(* the report frame of the current round followed by its payload frames *)
RoundFrames ==
  LET report == round.ret[1]
      payload == round.ret[2]
  IN <<Pickle([kind |-> "dict", id |-> cfg.id, report |-> report,
               payload |-> TRUE])>>
     \o (IF payload.kind = "list"
           THEN [i \in 1..Len(payload.elems) |-> Pickle(payload.elems[i])]
           ELSE <<Pickle(payload)>>)

IsPrefix(p, q) == Len(p) <= Len(q) /\ p = SubSeq(q, 1, Len(p))

(* C8: in a round nothing is sent before train() returns, and what is sent *)
(* then is the report frame {id, report, payload: true} first and the      *)
(* payload frames after it, nothing else and nothing in between.           *)
C8_ReportThenPayload ==
  round.n >= 1 =>
    IF round.ret = <<>>
      THEN sent = <<>>
      ELSE /\ IsPrefix(sent, RoundFrames)
           /\ pc = "await_sel" => sent = RoundFrames

(* a round with a payload of two chunks has been reported completely *)
C8_Witness ==
  /\ pc = "await_sel"
  /\ round.ret # <<>>
  /\ round.ret[2].kind = "list"
  /\ Len(sent) = 3

(* C9: Client.send emits one frame per element of a list payload, in       *)
(* element order (none for an empty list), and one frame holding the whole *)
(* value for any other payload.                                            *)
C9_SendFraming ==
  pc \in {"loop_recv", "loop_done"} =>
    IF result[2].kind = "list"
      THEN /\ Len(sent) = Len(result[2].elems)
           /\ \A i \in 1..Len(sent) : sent[i] = Pickle(result[2].elems[i])
      ELSE sent = <<Pickle(result[2])>>

(* a list of two different elements has been sent *)
C9_Witness ==
  /\ pc = "loop_recv"
  /\ result[2].kind = "list"
  /\ Len(result[2].elems) = 2
  /\ result[2].elems[1] # result[2].elems[2]
  /\ Len(sent) = 2

(* C10: over one reliable in-order session, a list of N >= 1 elements sent *)
(* by Client.send and received by Client.recv with payload_length = N      *)
(* takes N receives and comes back equal; a payload that is not a list,    *)
(* received with no payload_length, takes one receive and comes back equal.*)
C10_RoundTrip ==
  pc = "loop_done" =>
    /\ (/\ result[2].kind = "list"
        /\ Len(result[2].elems) >= 1
        /\ HasKey(data, "payload_length")
        /\ data.payload_length = Len(result[2].elems)) =>
         /\ nrecv = Len(result[2].elems)
         /\ server_payload.kind = "list"
         /\ Len(server_payload.elems) = Len(result[2].elems)
         /\ \A i \in 1..Len(result[2].elems) :
              server_payload.elems[i] = result[2].elems[i]
    /\ (result[2].kind # "list" /\ ~HasKey(data, "payload_length")) =>
         /\ nrecv = 1
         /\ server_payload = result[2]

(* a list of two different elements has made the round trip *)
C10_Witness ==
  /\ pc = "loop_done"
  /\ result[2].kind = "list"
  /\ Len(result[2].elems) = 2
  /\ result[2].elems[1] # result[2].elems[2]
  /\ HasKey(data, "payload_length") /\ data.payload_length = 2
  /\ inq = <<>>

HeartbeatStartAt == {i \in 1..Len(calls) : calls[i].op = "heartbeat_start"}

(* C11: in a round whose selection has no 'payload' key the client        *)
(* receives no payload frame and never invokes load_payload, with or      *)
(* without a 'payload_length' key: the selection is the last frame it     *)
(* receives before the heartbeat is started and train() is invoked.       *)
C11_NoPayloadKeySkipsLoad ==
  (round.n >= 1 /\ ~HasKey(round.sel, "payload")) =>
     /\ pc # "recv"
     /\ round.rcvd = <<>>
     /\ LoadPayloadAt = {}
     /\ Cardinality(HeartbeatStartAt) = 1
     /\ Cardinality(TrainAt) = 1
     /\ Len(hb) = round.n

C11_Witness ==
  /\ pc = "training"
  /\ round.n = 2
  /\ HasKey(round.sel, "payload_length")
  /\ ~HasKey(round.sel, "payload")
  /\ Alive(hb[2])

(* C12: the heartbeat process of a round is started right before train()  *)
(* is invoked and has been terminated when train() has returned and the   *)
(* report is about to be sent: while the client awaits a selection,       *)
(* receives a payload or sends its report and payload, none of its        *)
(* heartbeat processes is alive.                                          *)
C12_HeartbeatOnlyWhileTraining ==
  /\ \A j \in TrainAt : j > 1 /\ (j - 1) \in HeartbeatStartAt
  /\ pc \in {"await_sel", "recv", "send_report", "send_payload"} =>
       \A i \in 1..Len(hb) : ~Alive(hb[i])
  /\ (round.n >= 1 /\ sent # <<>>) => ~Alive(hb[Len(hb)])

C12_Witness ==
  /\ pc = "send_report"
  /\ sent = <<>>
  /\ hb[Len(hb)].pc = "terminated"
  /\ hb_sent # <<>>
  /\ hb_sent[1].proc = Len(hb)

AliveHeartbeats == {i \in 1..Len(hb) : Alive(hb[i])}

(* C13: over any number of rounds, at most one of the heartbeat processes *)
(* the client has started is alive.                                       *)
C13_AtMostOneHeartbeat == Cardinality(AliveHeartbeats) <= 1

C13_Witness ==
  /\ pc = "training"
  /\ Len(hb) >= 2
  /\ AliveHeartbeats = {Len(hb)}

(* C14: when train() has raised, the failure has left start_client as an  *)
(* exception, no frame of the round has been sent, train() has been       *)
(* invoked once in the round and the client is not awaiting a selection.  *)
C14_TrainFailurePropagates ==
  err.from = "train" =>
    /\ pc = "raised"
    /\ sent = <<>>
    /\ Cardinality(TrainAt) = 1
    /\ round.ret = <<>>

UndecodableAt == {k \in 1..Len(round.rcvd) : ~CanUnpickle(round.rcvd[k])}

(* C15: when a frame received by Client.recv cannot be decoded, recv      *)
(* raises the decoding error instead of returning: in that round          *)
(* load_payload is not invoked, no heartbeat is started and train() is    *)
(* not invoked, whatever had been received before the frame.              *)
C15_UndecodableFrameRaises ==
  UndecodableAt # {} =>
    /\ pc = "raised"
    /\ err = Error("UnpicklingError", "decode")
    /\ UndecodableAt = {Len(round.rcvd)}
    /\ LoadPayloadAt = {}
    /\ HeartbeatStartAt = {}
    /\ TrainAt = {}
    /\ sent = <<>>

C15_Witness ==
  /\ pc = "raised"
  /\ HasKey(round.sel, "payload_length")
  /\ UndecodableAt = {2}
  /\ IsList(server_payload) /\ Len(server_payload.elems) = 1

Registration == Pickle([kind |-> "dict", id |-> cfg.id])

(* C17: the client opens one main session and sends the registration      *)
(* frame {id: client_id} on it once, as the first frame and before it     *)
(* receives anything; round after round it awaits the next selection on   *)
(* that same open session, without connecting or registering again.       *)
C17_RegistersOnceFirst ==
  /\ [](session.conns <= 1 /\ session.regs <= session.conns)
  /\ [](session.regs = 0 => (sent = <<>> /\ nrecv = 0 /\ round.n = 0))
  /\ []((session.regs = 1 /\ round.n = 0) => sent = <<Registration>>)
  /\ [](pc \in {"await_sel", "recv", "training", "send_report",
                "send_payload"} =>
          /\ session = [conns |-> 1, regs |-> 1]
          /\ ws = "open"
          /\ ws_port = server_port)
  /\ [][(round.n >= 1 /\ pc' = "await_sel") =>
          UNCHANGED <<session, ws, ws_port>>]_vars

C17_Witness ==
  /\ pc = "await_sel"
  /\ round.n = 2
  /\ round.ret # <<>>
  /\ sent = RoundFrames
  /\ session = [conns |-> 1, regs |-> 1]
  /\ ws = "open"

(* the heartbeat processes terminate() has been called on: those of the   *)
(* earlier rounds and, once train() has returned, that of this round      *)
Cancelled(i) ==
  \/ i < Len(hb)
  \/ i = Len(hb) /\ (round.ret # <<>> \/ Len(hb) < round.n)

(* C18: a heartbeat process that has been terminated after training takes *)
(* no further step: it is not alive, it connects no more and no heartbeat *)
(* frame sent later is one of its.                                        *)
C18_CancelledHeartbeatSilent ==
  /\ [](\A i \in 1..Len(hb) : Cancelled(i) => hb[i].pc = "terminated")
  /\ [][\A i \in 1..Len(hb) : Cancelled(i) => hb'[i] = hb[i]]_vars
  /\ [][Len(hb_sent') > Len(hb_sent) =>
          ~Cancelled(hb_sent'[Len(hb_sent')].proc)]_vars

C18_Witness ==
  /\ Len(hb) = 2
  /\ Cancelled(1)
  /\ ~Cancelled(2)
  /\ hb_sent # <<>>
  /\ hb_sent[Len(hb_sent)].proc = 2

(* the interval that is configured, in the clients or else in the server  *)
(* section, and 60 when neither section has one                           *)
ConfiguredInterval ==
  CASE cfg.clients_hmi # <<>> -> cfg.clients_hmi[1]
    [] cfg.server_hmi # <<>> -> cfg.server_hmi[1]
    [] OTHER -> 60

(* C19: every heartbeat frame is {id: client_id} sent to the primary port *)
(* of the coordinator; the sleep that follows lasts at least 0 and less   *)
(* than the configured heartbeat_max_interval, or than 60 when none is    *)
(* configured, and reading the interval does not end the heartbeat.       *)
C19_HeartbeatIteration ==
  /\ \A k \in 1..Len(hb_sent) :
       /\ hb_sent[k].port = cfg.port
       /\ hb_sent[k].frame = Pickle([kind |-> "dict", id |-> cfg.id])
  /\ \A i \in 1..Len(hb) :
       /\ hb[i].pc = "sleep" =>
            (0 <= hb[i].sleep /\ hb[i].sleep < ConfiguredInterval)
       /\ hb[i].pc = "crashed" => hb[i].failed

RoundDone(n) ==
  /\ pc = "await_sel"
  /\ round.n = n
  /\ round.ret # <<>>
  /\ sent = RoundFrames

(* C20: whenever the client has applied a selection addressed to it, it   *)
(* eventually has sent the report and the payload of that round and is    *)
(* awaiting the next selection with no heartbeat process alive, on a      *)
(* session that does not fail, with a train() that returns and a peer     *)
(* that sends every payload frame it announced.                           *)
C20_RoundCompletes ==
  \A n \in 1..MaxRecv :
    (round.n = n /\ pc \in {"recv", "training"})
       ~> (RoundDone(n) /\ AliveHeartbeats = {})

C20_Witness ==
  /\ RoundDone(2)
  /\ AliveHeartbeats = {}
  /\ HasKey(round.sel, "payload_length")
  /\ Len(round.rcvd) = MaxChunks
  /\ nrecv > MaxRecv

(* a connection of heartbeat process i fails in this step *)
HeartbeatFails(i) == ~hb[i].failed /\ hb'[i].failed

(* C16: a heartbeat process whose connection has failed is out of its     *)
(* loop and takes no further step; the failure changes nothing of the     *)
(* main flow, and the round it happens in still completes: train()        *)
(* returns and the report and the payload are sent.                       *)
C16_HeartbeatFailureContained ==
  /\ [](\A i \in 1..Len(hb) :
          hb[i].failed => hb[i].pc \in {"exited", "crashed"})
  /\ [][\A i \in 1..Len(hb) :
          hb[i].failed => (hb'[i] = hb[i] \/ hb'[i].pc = "terminated")]_vars
  /\ [][(\E i \in 1..Len(hb) : HeartbeatFails(i)) =>
          UNCHANGED <<pc, ws, ws_port, sent, sent_i, inq, nrecv, data,
                      data_loaded, server_payload, result, calls, round,
                      nloads, err, session, hb_sent>>]_vars
  /\ \A n \in 1..MaxRecv :
       (round.n = n /\ pc = "training" /\ hb[Len(hb)].failed)
          ~> RoundDone(n)

C16_Witness ==
  /\ pc = "training"
  /\ round.n = 2
  /\ hb[2].failed
  /\ hb[2].pc = "exited"
  /\ ENABLED (\E rep \in Reports, p \in TrainPayloads : TrainReturn(rep, p))

(* ====================== properties of the trainer ====================== *)

(* C21: Trainer.train can be invoked round after round in one process:    *)
(* no invocation fails while setting the start method of the training     *)
(* process, every invocation starts one training process and joins it     *)
(* before it loads the model, and an invocation that returns has ended    *)
(* with pause_training.                                                   *)
C21_TrainRepeatable ==
  /\ trainer.err.from # "set_start_method"
  /\ trainer.pc \in {"load_model", "pause_training"} =>
       (trainer.child = "exited" /\
        SubSeq(trainer.log, 1, 3) =
          <<"start_training", "process_start", "process_join">>)
  /\ (trainer.pc = "idle" /\ trainer.n >= 1) =>
       trainer.log[Len(trainer.log)] = "pause_training"

(* C22: the file the parent loads after the join is the file the training *)
(* process saved: the two names are equal, and a file that is loaded has  *)
(* been written by the training process of this invocation.               *)
C22_LoadsWhatChildSaved ==
  /\ trainer.pc = "load_model" => LoadedName(trainer) = SavedName(trainer)
  /\ trainer.loaded # <<>> => trainer.loaded[1] \in trainer.saved

====
